---- MODULE Spec2Model ----
(***************************************************************************)
(* Model of src/application.py: the WebSocket chat relay.  One connection  *)
(* handler (ws_chatbot) runs as a sequential task; its steps are split at  *)
(* the await points (accept, send_text, receive_text, call_bot_api), where *)
(* the client and the gateway can act.                                     *)
(*                                                                         *)
(* Strings are sequences of characters so that strip() is computed.  The   *)
(* fixed texts of the envelopes are single tokens.                         *)
(***************************************************************************)
EXTENDS Integers, Sequences, FiniteSets, TLC

\* ------------------------------------------------------------------ bounds
MaxFrames == 2      \* inbound frames the client sends on the connection
MaxLiveFrames == 1  \* the same, in the specification with fairness
MaxTextLen == 3     \* longest raw text given to the parser on its own
MaxConnFrames == 1  \* inbound frames per connection, with several connections

\* ------------------------------------------------------- program constants
ErrorStatus == 400  \* application.py:69  resp.status >= 400
BodyLimit == 300    \* application.py:71  body[:300]

\* ----------------------------------------------------------------- strings
\* A string is the sequence of its characters: a space, a letter, a digit.
RECURSIVE LStrip(_)
LStrip(s) == IF s # <<>> /\ Head(s) = " " THEN LStrip(Tail(s)) ELSE s

RECURSIVE RStrip(_)
RStrip(s) ==
    IF s # <<>> /\ s[Len(s)] = " " THEN RStrip(SubSeq(s, 1, Len(s) - 1)) ELSE s

\* str.strip(): leading and trailing whitespace removed
Strip(s) == RStrip(LStrip(s))

\* s[:n]
Prefix(s, n) == SubSeq(s, 1, IF Len(s) < n THEN Len(s) ELSE n)

\* --------------------------------------------------------- Python values
\* A Python value as the handler sees it: t is its type, s its text when it
\* is a str.  "absent" stands for a key a dict does not hold.
StrV(s) == [t |-> "str", s |-> s]
Other(t) == [t |-> t, s |-> <<>>]
Absent == Other("absent")

\* bool(v): None, "", 0, {} and [] are falsy
Truthy(v) ==
    CASE v.t = "str" -> v.s # <<>>
      [] v.t \in {"none", "zero", "emptydict", "emptylist", "absent"} -> FALSE
      [] OTHER -> TRUE

\* ------------------------------------------------------- inbound frames
Keys == {"message", "text", "userMessage", "m"}
\* An alias looked up before message.
KeyOrderAliasFirst == <<"text", "message", "userMessage", "m">>

KeyOrder == <<"message", "text", "userMessage", "m">>

\* Field values a client may put under a key of a JSON object frame: the key
\* left out, a number, a blank string, a padded string.
FieldVals == {Absent, Other("int"), StrV(<<" ">>), StrV(<<" ", "5">>)}

NoFields == [k \in Keys |-> Absent]

\* A raw text frame.  kind "text": the characters s as typed; kind "object":
\* the JSON text of an object with the fields f; kind "literal": the JSON text
\* of a value lit that is no object (null, a list, a quoted string).
TextFrame(s) == [kind |-> "text", s |-> s, f |-> NoFields, lit |-> "none"]
ObjectFrame(f) == [kind |-> "object", s |-> <<>>, f |-> f, lit |-> "none"]
LiteralFrame(l) == [kind |-> "literal", s |-> <<>>, f |-> NoFields, lit |-> l]

\* Texts a client may type: empty, blank, plain, padded, and digits (which are
\* valid JSON).
RawTexts ==
    {<<>>, <<" ">>, <<"a">>, <<" ", "a", " ">>, <<"5">>, <<" ", "5">>}

RawFrames ==
    {TextFrame(s) : s \in RawTexts}
    \cup {ObjectFrame(f) : f \in [Keys -> FieldVals]}
    \cup {LiteralFrame(l) : l \in {"none", "list", "str"}}

\* A parsed payload: a dict with fields f, or a value of another type t.
Dict(f) == [t |-> "dict", f |-> f]
NonDict(t) == [t |-> t, f |-> NoFields]

\* Characters that json.loads reads as a number: digits between optional
\* surrounding whitespace.
IsJsonNumber(s) ==
    LET t == Strip(s)
    IN  t # <<>> /\ \A i \in 1..Len(t) : t[i] = "5"

\* The raw text dropped when json.loads raises.
ParsePayloadDropsText(raw) ==
    CASE raw.kind = "object" -> Dict(raw.f)
      [] raw.kind = "literal" -> NonDict(raw.lit)
      [] raw.kind = "text" /\ IsJsonNumber(raw.s) -> NonDict("int")
      [] OTHER -> Dict(NoFields)

\* application.py:105-109: json.loads(raw), or {"message": raw} when it raises
ParsePayload(raw) ==
    CASE raw.kind = "object" -> Dict(raw.f)
      [] raw.kind = "literal" -> NonDict(raw.lit)
      [] raw.kind = "text" /\ IsJsonNumber(raw.s) -> NonDict("int")
      [] OTHER -> Dict([NoFields EXCEPT !["message"] = StrV(raw.s)])

\* The outcome of a call: a returned value, or a raised exception with its
\* class and str(e).
Returned(v) == [raised |-> FALSE, cls |-> "", msg |-> <<>>, v |-> v]
Raised(cls, msg) == [raised |-> TRUE, cls |-> cls, msg |-> msg, v |-> Absent]

RECURSIVE FirstNonBlank(_, _)
FirstNonBlank(f, i) ==
    IF i > Len(KeyOrder) THEN <<>>
    ELSE LET v == f[KeyOrder[i]]
         IN  IF v.t = "str" /\ Strip(v.s) # <<>> THEN Strip(v.s)
             ELSE FirstNonBlank(f, i + 1)

\* The first string under a key taken without the blank test of line 51.
RECURSIVE FirstString(_, _)
FirstString(f, i) ==
    IF i > Len(KeyOrder) THEN <<>>
    ELSE IF f[KeyOrder[i]].t = "str" /\ f[KeyOrder[i]].s # <<>>
         THEN f[KeyOrder[i]].s
         ELSE FirstString(f, i + 1)

ExtractWithoutStrip(payload) ==
    IF payload.t # "dict"
    THEN Raised("AttributeError", <<"object has no attribute 'get'">>)
    ELSE Returned(StrV(FirstString(payload.f, 1)))

\* application.py:43-53.  payload.get on a value that is no dict raises
\* AttributeError.
_safe_extract_user_message(payload) ==
    IF payload.t # "dict"
    THEN Raised("AttributeError", <<"object has no attribute 'get'">>)
    ELSE Returned(StrV(FirstNonBlank(payload.f, 1)))

\* ------------------------------------------------------------- gateway
ToStr(n) ==
    CASE n = 200 -> "200" [] n = 400 -> "400" [] n = 500 -> "500"

Statuses == {200, 400, 500}

\* Values found at choices[0].message.content
ContentVals ==
    {Absent, Other("none"), Other("int"), Other("zero"), Other("dict"),
     Other("emptydict"),
     StrV(<<>>), StrV(<<" ">>), StrV(<<"a">>), StrV(<<" ", "a", " ">>)}

\* What the gateway does with one GET: no answer within the timeout, no
\* connection, or an HTTP response.  A response body is text (kept for the
\* status >= 400 branch) that parses to JSON of a given shape, or does not.
Shapes ==
    {"unparsable", "list", "nochoices", "emptychoices", "nomessage",
     "nullmessage", "content"}

Http(status, shape, content) ==
    [kind |-> "http", status |-> status, text |-> <<"body">>,
     shape |-> shape, content |-> content]

NoResponse(kind) ==
    [kind |-> kind, status |-> 0, text |-> <<>>, shape |-> "unparsable",
     content |-> Absent]

Responses ==
    {NoResponse("timeout"), NoResponse("connect")}
    \cup {Http(st, sh, Absent) : st \in Statuses, sh \in Shapes \ {"content"}}
    \cup {Http(st, "content", c) : st \in Statuses, c \in ContentVals}

\* The responses tried in the handler's runs: of the three shapes on which
\* the extraction path raises, one.
HandlerResponses ==
    {r \in Responses : r.shape \notin {"emptychoices", "nullmessage"}}

\* application.py:75-83: r.get("choices", [{}])[0].get("message", {})
\* .get("content", "") or "", and json.dumps(r) when that path raises.
\* json.dumps(r): the JSON text of the whole response, never blank
JsonDumps(resp) == <<"json:", resp.shape>>

\* The empty string returned when the extraction path raises.
ExtractContentOrEmpty(resp) ==
    CASE resp.shape \in {"list", "emptychoices", "nullmessage", "nochoices",
                         "nomessage"} -> StrV(<<>>)
      [] OTHER ->
             IF Truthy(resp.content) THEN resp.content ELSE StrV(<<>>)

ExtractContent(resp) ==
    CASE resp.shape \in {"list", "emptychoices", "nullmessage"} ->
             StrV(JsonDumps(resp))
      [] resp.shape \in {"nochoices", "nomessage"} -> StrV(<<>>)
      [] OTHER ->
             IF Truthy(resp.content) THEN resp.content ELSE StrV(<<>>)

\* application.py:56-83
call_bot_api(resp) ==
    CASE resp.kind = "timeout" -> Raised("TimeoutError", <<>>)
      [] resp.kind = "connect" ->
             Raised("ClientConnectorError", <<"Cannot connect to host">>)
      [] resp.status >= ErrorStatus ->
             Raised("RuntimeError",
                    <<"BOT_API HTTP ", ToStr(resp.status), ": ">>
                        \o Prefix(resp.text, BodyLimit))
      [] resp.shape = "unparsable" ->
             Raised("ContentTypeError", <<"Attempt to decode JSON">>)
      [] OTHER -> Returned(ExtractContent(resp))

\* application.py:153-155: (bot_text or "").strip(), then the fallback text.
\* strip on a value that is no str raises AttributeError.
FallbackText == <<"FALLBACK">>

\* The reply text without the fallback of lines 154-155.
ReplyTextAsIs(bot_text) ==
    LET v == IF Truthy(bot_text) THEN bot_text ELSE StrV(<<>>)
    IN  IF v.t # "str"
        THEN Raised("AttributeError", <<"object has no attribute 'strip'">>)
        ELSE Returned(StrV(Strip(v.s)))

ReplyText(bot_text) ==
    LET v == IF Truthy(bot_text) THEN bot_text ELSE StrV(<<>>)
    IN  IF v.t # "str"
        THEN Raised("AttributeError", <<"object has no attribute 'strip'">>)
        ELSE Returned(StrV(IF Strip(v.s) = <<>> THEN FallbackText ELSE Strip(v.s)))

\* ------------------------------------------------------------ envelopes
\* The fixed texts are single tokens: GREETING is BOT_NAME + "입니다. 무엇을
\* 도와드릴까요?", and so on.
Envelope(type, role, message) ==
    [type |-> type, role |-> role, message |-> message]

\* application.py:90-99
GreetingEnvelope == Envelope("message", "assistant", <<"GREETING">>)

\* application.py:113-122
BlankErrorEnvelope == Envelope("error", "system", <<"EMPTY_MESSAGE">>)

\* application.py:126-135
TypingEnvelope == Envelope("typing", "system", <<"TYPING">>)

\* The error envelope without the description of the exception.
CallErrorEnvelopeBare(msg) == Envelope("error", "system", <<"BOT_CALL_FAILED: ">>)

\* application.py:141-150
CallErrorEnvelope(msg) == Envelope("error", "system", <<"BOT_CALL_FAILED: ">> \o msg)

\* application.py:157-166
ReplyEnvelope(text) == Envelope("message", "assistant", text)

\* The server-error envelope under a type of its own.
ServerErrorEnvelopeFatal(msg) == Envelope("fatal", "system", <<"SERVER_ERROR: ">> \o msg)

\* application.py:174-183
ServerErrorEnvelope(msg) == Envelope("error", "system", <<"SERVER_ERROR: ">> \o msg)

\* ---------------------------------------------------------------- state
VARIABLES
    pc,         \* the handler's position in ws_chatbot
    exit,       \* how ws_chatbot ended: "running", "returned", "raised"
    user_text,  \* ws_chatbot's local user_text
    bot_text,   \* ws_chatbot's local bot_text, after line 155
    e,          \* str(e) of the exception being reported
    client,     \* the client's end of the socket: "open" or "closed"
    pending,    \* text frames sent by the client and not yet received
    nsent,      \* text frames the client has sent
    recv,       \* history: what each received frame was
    calls,      \* history: the call_bot_api invocations (at: the number of
                \* send_text invocations made before; status, msg: the HTTP
                \* status answered and str(e) of the exception raised)
    log,        \* history: the send_text invocations
    discAt,     \* history: where the handler was when the client left
    arg,        \* the input of a function applied on its own
    result,     \* what the function returned for arg
    conns       \* the handlers of several connections, one record each

vars ==
    <<pc, exit, user_text, bot_text, e, client, pending, nsent, recv, calls,
      log, discAt, arg, result, conns>>

handler == <<pc, exit, user_text, bot_text, e>>
locals == <<user_text, bot_text, e>>
env == <<client, pending, nsent, discAt>>
aux == <<arg, result, conns>>

\* The state of one handler before accept.
OneInit ==
    /\ pc = "accept"
    /\ exit = "running"
    /\ user_text = <<>>
    /\ bot_text = <<>>
    /\ e = <<>>
    /\ client = "open"
    /\ pending = 0
    /\ nsent = 0
    /\ recv = <<>>
    /\ calls = <<>>
    /\ log = <<>>
    /\ discAt = [pc |-> "none", frame |-> 0]

Init ==
    /\ OneInit
    /\ arg = <<>>
    /\ result = <<>>
    /\ conns = <<>>

\* What a frame was, kept to state the claims: whether it is JSON that is no
\* object, whether it is blank text, whether it is an object in which each of
\* the four keys is absent or a blank string, and whether it carries a user
\* message (a string with a character that is no whitespace, as the text
\* itself or under one of the four keys).
HasInk(s) == \E i \in 1..Len(s) : s[i] # " "

FrameInfo(raw) ==
    [nonObject |-> raw.kind = "literal" \/ (raw.kind = "text" /\ IsJsonNumber(raw.s)),
     blankText |-> raw.kind = "text" /\ ~HasInk(raw.s),
     blankFields |->
        /\ raw.kind = "object"
        /\ \A k \in Keys :
              \/ raw.f[k].t = "absent"
              \/ raw.f[k].t = "str" /\ ~HasInk(raw.f[k].s),
     hasText |->
        \/ raw.kind = "text" /\ HasInk(raw.s) /\ ~IsJsonNumber(raw.s)
        \/ raw.kind = "object"
              /\ \E k \in Keys : raw.f[k].t = "str" /\ HasInk(raw.f[k].s)]

\* websocket.send_text at a call site (the line of the call).  While the
\* client is connected the frame is sent.  After the client has left, the
\* server either drops the frame silently, or send_text raises
\* WebSocketDisconnect, or it raises another exception.
SendResults ==
    IF client = "open" THEN {"sent"} ELSE {"dropped", "disconnect", "error"}

Completed(res) == res \in {"sent", "dropped"}

SendText(site, envelope, res) ==
    log' = Append(log, [site |-> site, type |-> envelope.type,
                        role |-> envelope.role, message |-> envelope.message,
                        frame |-> Len(recv), res |-> res])

\* Exceptions of send_text swallowed: the loop goes on.
AfterSendSwallowed(res, next) == next

\* application.py:101, 168-171: where control goes after a send_text inside
\* the try block: on, to "except WebSocketDisconnect: return", or to
\* "except Exception".
AfterSend(res, next) ==
    CASE Completed(res) -> next
      [] res = "disconnect" -> "done"
      [] OTHER -> "server_error"

ExitAfterSend(res) == IF res = "disconnect" THEN "returned" ELSE exit

SendFailure == <<"send_text failed">>

\* application.py:87
Accept ==
    /\ pc = "accept"
    /\ pc' = "greeting"
    /\ UNCHANGED <<aux, exit, locals, env, recv, calls, log>>

\* application.py:90-99: outside the try block, so an exception leaves
\* ws_chatbot.
SendGreeting ==
    /\ pc = "greeting"
    /\ \E res \in SendResults :
          /\ SendText(90, GreetingEnvelope, res)
          /\ pc' = IF Completed(res) THEN "receive" ELSE "done"
          /\ exit' = IF Completed(res) THEN exit ELSE "raised"
    /\ UNCHANGED <<aux, locals, env, recv, calls>>

\* application.py:111-112, 171: where control goes after the extraction
AfterExtract(x) ==
    CASE x.raised -> "server_error"
      [] x.v.s = <<>> -> "blank"
      [] OTHER -> "typing"

\* application.py:103-112: a frame is received, parsed and the user message
\* extracted.  Frames the client sent before leaving are still delivered.
ReceiveText ==
    /\ pc = "receive"
    /\ pending > 0
    /\ \E raw \in RawFrames :
          LET x == _safe_extract_user_message(ParsePayload(raw))
          IN  /\ recv' = Append(recv, FrameInfo(raw))
              /\ pc' = AfterExtract(x)
              /\ user_text' = IF x.raised THEN user_text ELSE x.v.s
              /\ e' = IF x.raised THEN x.msg ELSE e
    /\ pending' = pending - 1
    /\ UNCHANGED <<aux, exit, bot_text, client, nsent, discAt, calls, log>>

\* The disconnect caught by "except Exception" instead: an error envelope is
\* attempted.
ReceiveDisconnectReported ==
    /\ pc = "receive"
    /\ pending = 0
    /\ client = "closed"
    /\ pc' = "server_error"
    /\ e' = <<"WebSocketDisconnect">>
    /\ UNCHANGED <<aux, exit, user_text, bot_text, env, recv, calls, log>>

\* application.py:103, 168-170: receive_text raises WebSocketDisconnect
ReceiveDisconnect ==
    /\ pc = "receive"
    /\ pending = 0
    /\ client = "closed"
    /\ pc' = "done"
    /\ exit' = "returned"
    /\ UNCHANGED <<aux, locals, env, recv, calls, log>>

\* The loop entered above the greeting.
BlankNextGreeting == "greeting"

\* application.py:123: continue
BlankNext == "receive"

\* application.py:112-123
SendBlankError ==
    /\ pc = "blank"
    /\ \E res \in SendResults :
          /\ SendText(113, BlankErrorEnvelope, res)
          /\ pc' = AfterSend(res, BlankNext)
          /\ exit' = ExitAfterSend(res)
          /\ e' = IF res = "error" THEN SendFailure ELSE e
    /\ UNCHANGED <<aux, user_text, bot_text, env, recv, calls>>

\* The call started without being awaited: the loop goes on to the next frame.
TypingNextPipelined == "receive"

\* application.py:139: the handler awaits call_bot_api
TypingNext == "calling"

\* application.py:126-139: the typing envelope, then call_bot_api is invoked
SendTyping ==
    /\ pc = "typing"
    /\ \E res \in SendResults :
          /\ SendText(126, TypingEnvelope, res)
          /\ pc' = AfterSend(res, TypingNext)
          /\ exit' = ExitAfterSend(res)
          /\ e' = IF res = "error" THEN SendFailure ELSE e
          /\ calls' = IF Completed(res)
                      THEN Append(calls, [frame |-> Len(recv), m |-> user_text,
                                          at |-> Len(log) + 1,
                                          state |-> "inflight", status |-> 0,
                                          msg |-> <<>>])
                      ELSE calls
    /\ UNCHANGED <<aux, user_text, bot_text, env, recv>>

\* application.py:138-155: call_bot_api returns or raises; the reply text is
\* prepared.
GatewayResolve ==
    /\ pc = "calling"
    /\ \E resp \in HandlerResponses :
          LET out == call_bot_api(resp)
              rt == ReplyText(out.v)
          IN  /\ calls' = [calls EXCEPT
                              ![Len(calls)].state =
                                  IF out.raised THEN "raised" ELSE "returned",
                              ![Len(calls)].status = resp.status,
                              ![Len(calls)].msg = out.msg]
              /\ pc' = CASE out.raised -> "call_error"
                         [] rt.raised -> "server_error"
                         [] OTHER -> "reply"
              /\ e' = CASE out.raised -> out.msg
                        [] rt.raised -> rt.msg
                        [] OTHER -> e
              /\ bot_text' = IF out.raised \/ rt.raised THEN bot_text ELSE rt.v.s
    /\ UNCHANGED <<aux, exit, user_text, env, recv, log>>

\* The continue of line 151 left out: control falls through to the reply.
CallErrorFallThrough == "reply"

\* The call tried again after a failure.
CallErrorRetry == "typing"

\* application.py:151: continue
CallErrorNext == "receive"

\* application.py:140-151
SendCallError ==
    /\ pc = "call_error"
    /\ \E res \in SendResults :
          /\ SendText(141, CallErrorEnvelope(e), res)
          /\ pc' = AfterSend(res, CallErrorNext)
          /\ exit' = ExitAfterSend(res)
          /\ e' = IF res = "error" THEN SendFailure ELSE e
    /\ UNCHANGED <<aux, user_text, bot_text, env, recv, calls>>

\* application.py:102: while True
ReplyNext == "receive"

\* application.py:157-166
SendReply ==
    /\ pc = "reply"
    /\ \E res \in SendResults :
          /\ SendText(157, ReplyEnvelope(bot_text), res)
          /\ pc' = AfterSend(res, ReplyNext)
          /\ exit' = ExitAfterSend(res)
          /\ e' = IF res = "error" THEN SendFailure ELSE e
    /\ UNCHANGED <<aux, user_text, bot_text, env, recv, calls>>

\* The loop resumed after the server-error envelope.
SendServerErrorResumed ==
    /\ pc = "server_error"
    /\ \E res \in SendResults : SendText(174, ServerErrorEnvelope(e), res)
    /\ pc' = "receive"
    /\ UNCHANGED <<aux, exit, locals, env, recv, calls>>

\* application.py:171-185: one attempt; an exception of the send is passed
SendServerError ==
    /\ pc = "server_error"
    /\ \E res \in SendResults : SendText(174, ServerErrorEnvelope(e), res)
    /\ pc' = "done"
    /\ exit' = "returned"
    /\ UNCHANGED <<aux, locals, env, recv, calls>>

\* The client sends a text frame, up to n frames on the connection.
ClientSendUpTo(n) ==
    /\ client = "open"
    /\ pc \notin {"accept", "done"}
    /\ nsent < n
    /\ pending' = pending + 1
    /\ nsent' = nsent + 1
    /\ UNCHANGED <<aux, handler, client, discAt, recv, calls, log>>

ClientSend == ClientSendUpTo(MaxFrames)

\* The client closes the socket.
ClientDisconnect ==
    /\ client = "open"
    /\ pc \notin {"accept", "done"}
    /\ client' = "closed"
    /\ discAt' = [pc |-> pc, frame |-> Len(recv)]
    /\ UNCHANGED <<aux, handler, pending, nsent, recv, calls, log>>

Next ==
    \/ Accept
    \/ SendGreeting
    \/ ReceiveText
    \/ ReceiveDisconnect
    \/ SendBlankError
    \/ SendTyping
    \/ GatewayResolve
    \/ SendCallError
    \/ SendReply
    \/ SendServerError
    \/ ClientSend
    \/ ClientDisconnect

Spec == Init /\ [][Next]_vars

TypeOK ==
    /\ pc \in {"accept", "greeting", "receive", "blank", "typing", "calling",
               "call_error", "reply", "server_error", "done"}
    /\ exit \in {"running", "returned", "raised"}
    /\ client \in {"open", "closed"}
    /\ pending \in 0..MaxFrames
    /\ nsent \in 0..MaxFrames

\* ================================================================ claims
\* The send_text invocations made while frame f (the f-th received) was
\* handled, in order, and the call_bot_api invocations made for it.
SendsOf(f) == SelectSeq(log, LAMBDA r : r.frame = f)
CallsOf(f) == SelectSeq(calls, LAMBDA c : c.frame = f)
RepliesOf(f) ==
    SelectSeq(log, LAMBDA r : r.frame = f /\ r.type \in {"message", "error"}
                                 /\ Completed(r.res))
TypingsOf(f) == SelectSeq(SendsOf(f), LAMBDA r : r.type = "typing")

\* The handling of frame f is over: the handler is back at receive_text, has
\* ended, or has received a later frame.
Handled(f) == f < Len(recv) \/ (f = Len(recv) /\ pc \in {"receive", "done"})

\* Every send_text made for frame f returned (none raised).
Clean(f) == \A i \in DOMAIN log : log[i].frame = f => Completed(log[i].res)

Frames == 1..Len(recv)

\* C1: every received frame whose sends all returned gets exactly one
\* envelope of type message or error, after at most one typing envelope and
\* nothing else, on every path (blank, gateway success, gateway failure,
\* unexpected exception); no frame ever gets two.
C1_OneReplyPerFrame ==
    \A f \in Frames :
        /\ Len(RepliesOf(f)) <= 1
        /\ Len(TypingsOf(f)) <= 1
        /\ (Handled(f) /\ Clean(f)) =>
              /\ Len(RepliesOf(f)) = 1
              /\ Len(SendsOf(f)) = Len(TypingsOf(f)) + 1
              /\ SendsOf(f)[Len(SendsOf(f))].type \in {"message", "error"}

C1_Witness ==
    /\ client = "open"
    /\ pc = "done"
    /\ Len(recv) = 2
    /\ calls # <<>> /\ calls[1].state = "raised"
    /\ recv[2].nonObject
    /\ Len(RepliesOf(1)) = 1 /\ Len(RepliesOf(2)) = 1

\* C2: a frame that is an object in which message and the three aliases are
\* blank or absent never gets a typing or message envelope nor a gateway
\* call, and gets exactly one error envelope (when its send returned).
C2_BlankFrame ==
    \A f \in Frames :
        recv[f].blankFields =>
            /\ CallsOf(f) = <<>>
            /\ \A i \in DOMAIN log :
                  log[i].frame = f => log[i].type = "error"
            /\ (Handled(f) /\ Clean(f)) =>
                  /\ Len(SendsOf(f)) = 1
                  /\ SendsOf(f)[1].site = 113

C2_Witness ==
    \E f \in Frames :
        /\ recv[f].blankFields
        /\ Handled(f)
        /\ Len(SendsOf(f)) = 1 /\ SendsOf(f)[1].res = "sent"

\* C3: every frame from which no non-blank user message can be extracted,
\* frames that are JSON but no object included, gets an error envelope and
\* the loop goes on: with the client connected the handler has not ended.
C3_BlankContinues ==
    \A f \in Frames :
        (~recv[f].hasText /\ Handled(f) /\ client = "open") =>
            /\ Len(RepliesOf(f)) = 1
            /\ RepliesOf(f)[1].type = "error"
            /\ pc # "done"

C3_Witness ==
    \E f \in Frames :
        /\ recv[f].blankText
        /\ f < Len(recv)
        /\ Len(RepliesOf(f)) = 1 /\ RepliesOf(f)[1].res = "sent"

\* C4: for every gateway call that returned, the frame's sends are exactly
\* one typing envelope and then one message envelope, and the typing
\* envelope was sent before call_bot_api was invoked.
C4_TypingThenMessage ==
    \A f \in Frames :
        (Handled(f) /\ Clean(f) /\ CallsOf(f) # <<>>
           /\ CallsOf(f)[1].state = "returned") =>
            /\ Len(SendsOf(f)) = 2
            /\ SendsOf(f)[1].type = "typing"
            /\ SendsOf(f)[2].type = "message"
            /\ log[CallsOf(f)[1].at].type = "typing"
            /\ log[CallsOf(f)[1].at].frame = f

\* C4 for the calls whose result the handler could turn into a reply text.
C4_WhenReplyPrepared ==
    \A f \in Frames :
        (Handled(f) /\ Clean(f) /\ CallsOf(f) # <<>>
           /\ CallsOf(f)[1].state = "returned"
           /\ \A i \in DOMAIN log : log[i].frame = f => log[i].site # 174) =>
            /\ Len(SendsOf(f)) = 2
            /\ SendsOf(f)[1].type = "typing"
            /\ SendsOf(f)[2].type = "message"
            /\ log[CallsOf(f)[1].at].type = "typing"
            /\ log[CallsOf(f)[1].at].frame = f

\* C5: the greeting is the first send_text of the connection, made before
\* any frame is received, and no later send_text sends it again.
C5_GreetingOnce ==
    /\ pc \in {"accept", "greeting"} => (log = <<>> /\ recv = <<>>)
    /\ pc \notin {"accept", "greeting"} => log # <<>>
    /\ log # <<>> =>
          /\ log[1].site = 90
          /\ log[1].frame = 0
          /\ log[1].message = <<"GREETING">>
    /\ recv # <<>> => Completed(log[1].res)
    /\ \A i \in 2..Len(log) :
          log[i].site # 90 /\ log[i].message # <<"GREETING">>

C5_Witness ==
    /\ pc = "receive"
    /\ Len(log) >= 3
    /\ log[1].res = "sent"
    /\ \E i \in DOMAIN log : log[i].type = "error"

\* C6: the envelope sent on connection open has type greeting.
C6_GreetingType ==
    \A i \in DOMAIN log : log[i].site = 90 => log[i].type = "greeting"

\* C7: handling is one at a time.  At most one call is in flight; a frame is
\* received only when no call is in flight and every earlier frame has had
\* its message or error envelope; envelopes follow the order of the frames.
InFlight(cs) == SelectSeq(cs, LAMBDA c : c.state = "inflight")

C7_OneAtATime ==
    [][/\ Len(InFlight(calls')) <= 1
       /\ recv' # recv =>
             /\ InFlight(calls) = <<>>
             /\ \A f \in Frames : Len(RepliesOf(f)) = 1
       /\ log' # log =>
             \A i \in DOMAIN log : log[i].frame <= log'[Len(log')].frame]_vars

C7_Witness ==
    /\ Len(recv) = 2
    /\ Len(calls) = 2
    /\ calls[1].state # "inflight"
    /\ calls[2].state = "inflight"
    /\ Len(RepliesOf(1)) = 1

\* C8: when call_bot_api fails the frame gets the typing envelope and then
\* one error envelope whose text is the prefix followed by str(e), with the
\* status code in it for a status of 400 or more; the call is made once; the
\* loop goes on.
Range(q) == {q[i] : i \in DOMAIN q}

C8_GatewayFailure ==
    \A f \in Frames :
        (CallsOf(f) # <<>> /\ CallsOf(f)[1].state # "inflight") =>
            LET c == CallsOf(f)[1]
            IN  /\ c.status >= 400 => c.state = "raised"
                /\ (c.state = "raised" /\ Handled(f) /\ Clean(f)) =>
                      /\ Len(CallsOf(f)) = 1
                      /\ Len(SendsOf(f)) = 2
                      /\ SendsOf(f)[1].type = "typing"
                      /\ SendsOf(f)[2].type = "error"
                      /\ SendsOf(f)[2].message = <<"BOT_CALL_FAILED: ">> \o c.msg
                      /\ c.status >= 400 =>
                            ToStr(c.status) \in Range(SendsOf(f)[2].message)
                      /\ (f = Len(recv) /\ client = "open") => pc = "receive"

C8_Witness ==
    /\ Len(recv) = 2
    /\ Len(calls) = 2
    /\ calls[1].state = "raised" /\ calls[1].status = 500
    /\ calls[2].state = "returned"
    /\ pc = "receive"
    /\ Len(RepliesOf(1)) = 1 /\ RepliesOf(1)[1].res = "sent"
    /\ Len(RepliesOf(2)) = 1 /\ RepliesOf(2)[1].type = "message"

\* C9: call_bot_api is invoked once for each frame that carries a non-blank
\* user message and for nothing else.
C9_OneCallPerMessage ==
    /\ \A i \in DOMAIN calls : calls[i].frame \in Frames
    /\ \A f \in Frames :
          /\ Len(CallsOf(f)) <= 1
          /\ CallsOf(f) # <<>> => recv[f].hasText
          /\ (Handled(f) /\ Clean(f)) =>
                Len(CallsOf(f)) = IF recv[f].hasText THEN 1 ELSE 0

C9_Witness ==
    /\ Len(recv) = 2
    /\ pc = "receive"
    /\ recv[1].hasText /\ ~recv[2].hasText
    /\ Len(calls) = 1
    /\ calls[1].state = "raised"
    /\ Clean(1) /\ Clean(2)

\* C10 as stated: after the client left during a call, the handler performs
\* no send_text for the reply nor for a server-error envelope.
AfterCall(f) ==
    SelectSeq(log, LAMBDA r : r.frame = f /\ r.site \in {141, 157, 174})

C10_NoSendAfterDisconnect ==
    discAt.pc = "calling" => AfterCall(discAt.frame) = <<>>

\* C10, amended: after the client left during a call, the handler still
\* performs send_text once for the reply, and once more for a server-error
\* envelope when the first raised an exception that is no disconnect; none
\* of these frames reaches the client; the call is not repeated; the handler
\* returns when a send_text raises WebSocketDisconnect and after the
\* server-error attempt, receives no further frame once a send_text raised,
\* and otherwise returns at the receive_text that finds no frame left.
C10_AfterMidCallDisconnect ==
    discAt.pc = "calling" =>
        LET f == discAt.frame
            after == AfterCall(f)
        IN  /\ \A i \in DOMAIN log :
                  (log[i].frame > f \/ (log[i].frame = f /\ log[i].site # 126))
                      => log[i].res # "sent"
            /\ Len(SelectSeq(after, LAMBDA r : r.site # 174)) <= 1
            /\ Len(SelectSeq(after, LAMBDA r : r.site = 174)) <= 1
            /\ Len(CallsOf(f)) = 1
            /\ Handled(f) => after # <<>>
            /\ \A i \in DOMAIN log :
                  /\ log[i].res = "disconnect" =>
                        /\ i = Len(log)
                        /\ pc = "done" /\ exit = "returned"
                  /\ log[i].res = "error" =>
                        /\ Len(recv) = log[i].frame
                        /\ pc \in {"server_error", "done"}
                        /\ pc = "done" =>
                              /\ exit = "returned"
                              /\ log[Len(log)].site = 174
            /\ (pc = "receive" /\ pending = 0) =>
                  (ENABLED ReceiveDisconnect /\ ~ENABLED ReceiveText)

C10_Witness ==
    /\ discAt.pc = "calling"
    /\ pc = "done"
    /\ Len(AfterCall(discAt.frame)) = 2
    /\ AfterCall(discAt.frame)[1].site = 157
    /\ AfterCall(discAt.frame)[1].res = "error"
    /\ AfterCall(discAt.frame)[2].site = 174

\* C11: when receive_text finds the client gone and no frame left, the
\* handler's step is to return: it sends nothing, calls nothing, receives
\* nothing and does not raise.
C11_CleanDisconnect ==
    [][(pc = "receive" /\ pending = 0 /\ client = "closed" /\ pc' # pc) =>
          /\ pc' = "done"
          /\ exit' = "returned"
          /\ log' = log
          /\ calls' = calls
          /\ recv' = recv]_vars

C11_Witness ==
    /\ discAt.pc = "receive"
    /\ discAt.frame = nsent
    /\ Len(recv) = nsent
    /\ nsent >= 1
    /\ pc = "done"
    /\ exit = "returned"
    /\ log[Len(log)].res = "sent"

\* C12: after an unexpected exception in the loop there is at most one
\* server-error send_text, of type error; it is the handler's last act: no
\* frame is received and no call is made after it, and whatever the send
\* did, the handler has returned without raising.
ServerErrors == {i \in DOMAIN log : log[i].site = 174}

C12_ServerErrorOnce ==
    /\ Cardinality(ServerErrors) <= 1
    /\ pc = "server_error" => (ServerErrors = {} /\ exit = "running")
    /\ \A i \in ServerErrors :
          /\ i = Len(log)
          /\ log[i].type = "error"
          /\ log[i].frame = Len(recv)
          /\ pc = "done"
          /\ exit = "returned"
          /\ \A j \in DOMAIN calls :
                calls[j].at < i /\ calls[j].state # "inflight"

C12_Witness ==
    /\ pc = "done"
    /\ exit = "returned"
    /\ pending > 0
    /\ \E i \in ServerErrors : log[i].res = "error"

\* C15: every envelope handed to send_text has the fields type, role and
\* message only, a type among greeting, typing, message, error, a role among
\* assistant, system, and a string as message.
IsText(m) == \A j \in DOMAIN m : m[j] \in STRING

C15_EnvelopeShape ==
    /\ \A i \in DOMAIN log :
          /\ log[i].type \in {"greeting", "typing", "message", "error"}
          /\ log[i].role \in {"assistant", "system"}
          /\ IsText(log[i].message)
    /\ \A v \in {GreetingEnvelope, BlankErrorEnvelope, TypingEnvelope,
                 CallErrorEnvelope(e), ReplyEnvelope(bot_text),
                 ServerErrorEnvelope(e)} :
          DOMAIN v = {"type", "role", "message"}

C15_Witness ==
    /\ client = "open"
    /\ \E i \in DOMAIN log : log[i].site = 113
    /\ \E i \in DOMAIN log : log[i].site = 126
    /\ \E i \in DOMAIN log : log[i].site = 174

\* C17: whenever call_bot_api returns without raising, whatever the type of
\* the content, the frame gets a message envelope and the loop goes on.
C17_ReturnedCallGetsMessage ==
    \A f \in Frames :
        (CallsOf(f) # <<>> /\ CallsOf(f)[1].state = "returned"
           /\ Handled(f) /\ client = "open") =>
            /\ Len(RepliesOf(f)) = 1
            /\ RepliesOf(f)[1].type = "message"
            /\ exit = "running"

\* C20: no reply of line 157 carries a blank text (a blank or falsy gateway
\* result is replaced by the fallback text), and the text given to
\* call_bot_api is the trimmed, non-blank user_text.
Blank(v) == ~Truthy(v) \/ (v.t = "str" /\ ~HasInk(v.s))

C20_NoBlankTexts ==
    /\ \A i \in DOMAIN log :
          log[i].site = 157 =>
              (HasInk(log[i].message) /\ Strip(log[i].message) = log[i].message)
    /\ \A j \in DOMAIN calls :
          HasInk(calls[j].m) /\ Strip(calls[j].m) = calls[j].m
    /\ pc = "calling" => calls[Len(calls)].m = user_text
    /\ \A v \in ContentVals :
          Blank(v) => ReplyText(v) = Returned(StrV(FallbackText))

C20_Witness ==
    /\ \E i \in DOMAIN log :
          log[i].site = 157 /\ log[i].message = FallbackText /\ log[i].res = "sent"
    /\ \E j \in DOMAIN calls : calls[j].m = <<"5">>

\* ------------------------------------------------------------- fairness
\* The handler is a task the event loop keeps running, and call_bot_api ends
\* within its timeout (application.py:65): each handler step that is enabled
\* is eventually taken.
LiveClientSend == ClientSendUpTo(MaxLiveFrames)

LiveNext ==
    \/ Accept
    \/ SendGreeting
    \/ ReceiveText
    \/ ReceiveDisconnect
    \/ SendBlankError
    \/ SendTyping
    \/ GatewayResolve
    \/ SendCallError
    \/ SendReply
    \/ SendServerError
    \/ LiveClientSend
    \/ ClientDisconnect

FairSpec ==
    /\ Init /\ [][LiveNext]_vars
    /\ WF_vars(Accept) /\ WF_vars(SendGreeting) /\ WF_vars(ReceiveText)
    /\ WF_vars(ReceiveDisconnect) /\ WF_vars(SendBlankError)
    /\ WF_vars(SendTyping) /\ WF_vars(GatewayResolve)
    /\ WF_vars(SendCallError) /\ WF_vars(SendReply)
    /\ WF_vars(SendServerError)

\* C19: while the client stays connected, every received frame is
\* eventually answered by one message or error envelope.
C19_EveryFrameAnswered ==
    \A f \in 1..MaxFrames :
        (Len(recv) >= f) ~> (client = "closed" \/ Len(RepliesOf(f)) = 1)

C19_Witness ==
    /\ client = "open"
    /\ calls # <<>>
    /\ calls[1].state = "raised" /\ calls[1].status = 0 /\ calls[1].msg = <<>>
    /\ Len(RepliesOf(calls[1].frame)) = 1
    /\ RepliesOf(calls[1].frame)[1].type = "error"

\* ------------------------------------------- the functions on their own
\* PureSpec applies one function of the program to one input: the extraction
\* to a dict, the parsing and extraction of lines 105-112 to a raw text and
\* to the object {"message": <that text>}, call_bot_api to a response.
Chars == {" ", "a", "5"}

RECURSIVE TextsUpTo(_)
TextsUpTo(n) ==
    IF n = 0 THEN {<<>>}
    ELSE LET S == TextsUpTo(n - 1)
         IN  S \cup {Append(t, c) : t \in {u \in S : Len(u) = n - 1}, c \in Chars}

\* Values under a key: left out, a number, blank, and three strings with ink.
PureVals ==
    {Absent, Other("int"), StrV(<<" ">>), StrV(<<"a">>),
     StrV(<<" ", "5", " ">>), StrV(<<"5", "a">>)}

\* An input: the function fn and, for it, the fields f of a dict, the raw
\* text t or the response r.
PureInput(fn, f, t, r) == [fn |-> fn, f |-> f, t |-> t, r |-> r]

PureInputs ==
    {PureInput("extract", f, <<>>, NoResponse("timeout")) :
        f \in [Keys -> PureVals]}
    \cup {PureInput("parse", NoFields, t, NoResponse("timeout")) :
             t \in TextsUpTo(MaxTextLen)}
    \cup {PureInput("call", NoFields, <<>>, r) : r \in Responses}

Pending == [done |-> FALSE]

PureInit ==
    /\ OneInit
    /\ conns = <<>>
    /\ arg \in PureInputs
    /\ result = Pending

\* application.py:105-112: what the handler does with a raw frame: where it
\* goes next and the user_text it holds.
Decide(raw) ==
    LET x == _safe_extract_user_message(ParsePayload(raw))
    IN  [next |-> AfterExtract(x),
         user_text |-> IF x.raised THEN <<>> ELSE x.v.s]

MessageObject(t) == ObjectFrame([NoFields EXCEPT !["message"] = StrV(t)])

ApplyExtract ==
    /\ arg.fn = "extract"
    /\ result = Pending
    /\ result' = [done |-> TRUE, out |-> _safe_extract_user_message(Dict(arg.f))]
    /\ UNCHANGED <<handler, env, recv, calls, log, arg, conns>>

ApplyParse ==
    /\ arg.fn = "parse"
    /\ result = Pending
    /\ result' = [done |-> TRUE,
                  text |-> Decide(TextFrame(arg.t)),
                  object |-> Decide(MessageObject(arg.t))]
    /\ UNCHANGED <<handler, env, recv, calls, log, arg, conns>>

ApplyCall ==
    /\ arg.fn = "call"
    /\ result = Pending
    /\ result' = [done |-> TRUE, out |-> call_bot_api(arg.r)]
    /\ UNCHANGED <<handler, env, recv, calls, log, arg, conns>>

PureNext == ApplyExtract \/ ApplyParse \/ ApplyCall

PureSpec == PureInit /\ [][PureNext]_vars

\* C13: the user message is taken by the priority message, text,
\* userMessage, m: a non-blank message wins whatever the aliases hold,
\* otherwise the first alias holding a non-blank string; the result is
\* empty only if none of the four keys holds a non-blank string.
ClaimedOrder == <<"message", "text", "userMessage", "m">>

NonBlankStr(v) == v.t = "str" /\ HasInk(v.s)

C13_Priority ==
    (arg.fn = "extract" /\ result.done) =>
        LET f == arg.f
            good == {i \in 1..4 : NonBlankStr(f[ClaimedOrder[i]])}
            first == CHOOSE i \in good : \A j \in good : i <= j
        IN  /\ ~result.out.raised
            /\ result.out.v.t = "str"
            /\ (result.out.v.s = <<>>) <=> (good = {})
            /\ good # {} => result.out.v.s = Strip(f[ClaimedOrder[first]].s)
            /\ NonBlankStr(f["message"]) =>
                  result.out.v.s = Strip(f["message"].s)

C13_Witness ==
    /\ arg.fn = "extract"
    /\ result.done
    /\ arg.f["message"] = StrV(<<" ">>)
    /\ arg.f["text"] = Other("int")
    /\ arg.f["userMessage"] = StrV(<<"5", "a">>)
    /\ arg.f["m"] = StrV(<<"a">>)
    /\ result.out.v = StrV(<<"5", "a">>)

C18_ExtractedReply ==
    (arg.fn = "call" /\ result.done /\ arg.r.kind = "http"
       /\ arg.r.status < 400 /\ arg.r.shape # "unparsable") =>
        /\ ~result.out.raised
        /\ result.out.v =
              CASE arg.r.shape \in {"list", "emptychoices", "nullmessage"} ->
                       StrV(<<"json:", arg.r.shape>>)
                [] arg.r.shape = "content"
                      /\ arg.r.content.t \notin {"absent", "none", "zero", "emptydict"}
                      /\ arg.r.content # StrV(<<>>) -> arg.r.content
                [] OTHER -> StrV(<<>>)

C18_Witness ==
    /\ arg.fn = "call"
    /\ result.done
    /\ arg.r.status = 200
    /\ arg.r.shape = "emptychoices"
    /\ result.out.v = StrV(<<"json:", "emptychoices">>)

\* ------------------------------------------------- several connections
\* MultiSpec runs one ws_chatbot task per connection.  Everything a task
\* reads or writes is a local of its coroutine or its own websocket; the
\* module's globals (BOT_NAME, BOT_API_URL) are only read.  A connection is
\* a record of the handler's position and locals, the client's end, and the
\* send_text and call_bot_api invocations made.
Conns == {"c1", "c2"}

ConnInit ==
    [pc |-> "accept", exit |-> "running", user_text |-> <<>>,
     bot_text |-> <<>>, e |-> <<>>, client |-> "open", pending |-> 0,
     nsent |-> 0, nrecv |-> 0, ncalls |-> 0, sends |-> <<>>]

\* Frames and responses tried with several connections: a message, a blank
\* text, JSON that is no object; an answer, a failure, a content that is no
\* string.
ConnFrames ==
    {TextFrame(<<"a">>), TextFrame(<<" ">>), LiteralFrame("none")}

ConnResponses ==
    {Http(200, "content", StrV(<<"a">>)), Http(500, "content", Absent),
     Http(200, "content", Other("int"))}

ConnSendResults(c) ==
    IF c.client = "open" THEN {"sent"} ELSE {"dropped", "disconnect", "error"}

\* send_text at a site inside the try block, then on to next
ConnSend(c, site, envelope, next) ==
    {[c EXCEPT !.sends = Append(@, [site |-> site, type |-> envelope.type,
                                    res |-> res]),
               !.pc = AfterSend(res, next),
               !.exit = IF res = "disconnect" THEN "returned" ELSE @,
               !.e = IF res = "error" THEN SendFailure ELSE @,
               !.ncalls = IF site = 126 /\ Completed(res) THEN @ + 1 ELSE @] :
        res \in ConnSendResults(c)}

\* application.py:86-185: the steps of one handler
HandlerSteps(c) ==
    CASE c.pc = "accept" -> {[c EXCEPT !.pc = "greeting"]}
      [] c.pc = "greeting" ->
            {[c EXCEPT !.sends = Append(@, [site |-> 90,
                                            type |-> GreetingEnvelope.type,
                                            res |-> res]),
                       !.pc = IF Completed(res) THEN "receive" ELSE "done",
                       !.exit = IF Completed(res) THEN @ ELSE "raised"] :
                res \in ConnSendResults(c)}
      [] c.pc = "receive" /\ c.pending > 0 ->
            {[c EXCEPT !.pending = @ - 1,
                       !.nrecv = @ + 1,
                       !.pc = Decide(raw).next,
                       !.user_text = IF Decide(raw).next = "server_error"
                                     THEN @ ELSE Decide(raw).user_text,
                       !.e = IF Decide(raw).next = "server_error"
                             THEN _safe_extract_user_message(ParsePayload(raw)).msg
                             ELSE @] :
                raw \in ConnFrames}
      [] c.pc = "receive" /\ c.pending = 0 /\ c.client = "closed" ->
            {[c EXCEPT !.pc = "done", !.exit = "returned"]}
      [] c.pc = "blank" -> ConnSend(c, 113, BlankErrorEnvelope, BlankNext)
      [] c.pc = "typing" -> ConnSend(c, 126, TypingEnvelope, TypingNext)
      [] c.pc = "calling" ->
            {LET out == call_bot_api(resp)
                 rt == ReplyText(out.v)
             IN  [c EXCEPT !.pc = CASE out.raised -> "call_error"
                                    [] rt.raised -> "server_error"
                                    [] OTHER -> "reply",
                           !.e = CASE out.raised -> out.msg
                                   [] rt.raised -> rt.msg
                                   [] OTHER -> @,
                           !.bot_text = IF out.raised \/ rt.raised
                                        THEN @ ELSE rt.v.s] :
                resp \in ConnResponses}
      [] c.pc = "call_error" ->
            ConnSend(c, 141, CallErrorEnvelope(c.e), CallErrorNext)
      [] c.pc = "reply" ->
            ConnSend(c, 157, ReplyEnvelope(c.bot_text), ReplyNext)
      [] c.pc = "server_error" ->
            {[c EXCEPT !.sends = Append(@, [site |-> 174,
                                            type |-> ServerErrorEnvelope(c.e).type,
                                            res |-> res]),
                       !.pc = "done",
                       !.exit = "returned"] :
                res \in ConnSendResults(c)}
      [] OTHER -> {}

\* The client of one connection sends a frame or leaves.
ClientSteps(c) ==
    IF c.client = "open" /\ c.pc \notin {"accept", "done"}
    THEN {[c EXCEPT !.client = "closed"]}
         \cup (IF c.nsent < MaxConnFrames
               THEN {[c EXCEPT !.pending = @ + 1, !.nsent = @ + 1]}
               ELSE {})
    ELSE {}

\* The locals kept at module level: a step of one handler shows in all.
CommitShared(cs, c, t) ==
    [d \in Conns |->
        IF d = c THEN t
        ELSE [cs[d] EXCEPT !.user_text = t.user_text,
                           !.bot_text = t.bot_text,
                           !.e = t.e]]

\* application.py:86-185: a step of the task of connection c writes the
\* locals and the websocket of that task only.
Commit(cs, c, t) == [cs EXCEPT ![c] = t]

MultiInit ==
    /\ OneInit
    /\ arg = <<>>
    /\ result = <<>>
    /\ conns = [c \in Conns |-> ConnInit]

HandlerStep ==
    /\ \E c \in Conns :
          \E t \in HandlerSteps(conns[c]) : conns' = Commit(conns, c, t)
    /\ UNCHANGED <<handler, env, recv, calls, log, arg, result>>

ClientStep ==
    /\ \E c \in Conns :
          \E t \in ClientSteps(conns[c]) : conns' = Commit(conns, c, t)
    /\ UNCHANGED <<handler, env, recv, calls, log, arg, result>>

MultiNext == HandlerStep \/ ClientStep

MultiSpec == MultiInit /\ [][MultiNext]_vars

\* C16: a step on one connection, a gateway failure, an exception or a
\* disconnect included, leaves the state and the envelopes of every other
\* connection as they were, and every other handler that has something to
\* do can still do it.
HasWork(c) ==
    /\ c.pc # "done"
    /\ ~(c.pc = "receive" /\ c.pending = 0 /\ c.client = "open")

C16_Independent ==
    [][\A c \in Conns :
          conns'[c] # conns[c] =>
              \A d \in Conns \ {c} :
                  /\ conns'[d] = conns[d]
                  /\ HasWork(conns[d]) => HandlerSteps(conns'[d]) # {}]_vars

C16_Witness ==
    /\ conns["c1"].pc = "done"
    /\ conns["c1"].client = "open"
    /\ conns["c1"].sends[Len(conns["c1"].sends)].site = 174
    /\ conns["c2"].pc = "receive"
    /\ conns["c2"].exit = "running"
    /\ conns["c2"].nrecv = 1
    /\ conns["c2"].sends[Len(conns["c2"].sends)].site = 157
    /\ conns["c2"].sends[Len(conns["c2"].sends)].res = "sent"

====
